---- MODULE Spec2Model ----
(***************************************************************************)
(* GitHubGraphVisualizer (src/github_graph_visualization.py): the topic    *)
(* index, the global graph builder _build_full_graph and the ego-network   *)
(* builder _build_4level_graph, as a state machine over loaded repository  *)
(* records.  Repository full_names and topics are modelled as integers     *)
(* (names ordered as sorted() orders them); JSON null is NullValue.        *)
(* _plot_graph's labels follow the builders.  calculate_activity_score and *)
(* retry_decorator (src/github_utils.py) have specifications of their own, *)
(* ScoreSpec and RetrySpec; TwoRunsSpec runs the ego builder twice.        *)
(***************************************************************************)
EXTENDS Integers, Sequences, FiniteSets, TLC

VARIABLES
    repo_data,       \* self.repo_data: the loaded list of repository records
    repo_map,        \* self.repo_map: full_name -> record
    topic_to_repos,  \* self.topic_to_repos: insertion-ordered <<topic, repos>> items
    pc,              \* position of the running builder, "idle" between calls
    G,               \* the nx.Graph under construction: [nodes, edges]
    edge_count,      \* _build_full_graph: edge_count
    added_edges,     \* _build_full_graph: added_edges
    topic_idx,       \* _build_full_graph: position of the outer loop in items()
    repos,           \* _build_full_graph: the (possibly truncated) list of the topic
    i,               \* _build_full_graph: outer pair index (0-based, as range())
    j,               \* _build_full_graph: inner pair index
    start_repo,      \* _build_4level_graph: the argument
    visited,         \* _build_4level_graph: visited
    current_level,   \* _build_4level_graph: current_level
    next_level,      \* _build_4level_graph: next_level
    level,           \* _build_4level_graph: the loop variable of range(levels + 1)
    todo,            \* _build_4level_graph: what `for repo_name in current_level` has left
    outcome,         \* what the last finished call returned or raised
    activity_data,   \* calculate_activity_score: the argument
    total_score,     \* calculate_activity_score: what the call returned
    max_retries,     \* retry_decorator: the argument max_retries
    base_delay,      \* retry_decorator: the argument base_delay
    rpc,             \* wrapper: "rest" before the call, "while" at the loop test, "done"
    retries,         \* wrapper: retries
    invocations,     \* wrapper: how often func has been invoked in this call
    caught,          \* wrapper: the exception of the last failed invocation
    slept,           \* wrapper: the arguments of time.sleep, in order
    wrapped          \* wrapper: what the call returned or raised

vars == <<repo_data, repo_map, topic_to_repos, pc, G, edge_count, added_edges,
          topic_idx, repos, i, j, start_repo, visited, current_level, next_level,
          level, todo, outcome, activity_data, total_score, max_retries,
          base_delay, rpc, retries, invocations, caught, slept, wrapped>>

visualizer == <<repo_data, repo_map, topic_to_repos, pc, G, edge_count, added_edges,
                topic_idx, repos, i, j, start_repo, visited, current_level,
                next_level, level, todo, outcome>>
scoreVars == <<activity_data, total_score>>
retryVars == <<max_retries, base_delay, rpc, retries, invocations, caught, slept, wrapped>>
\* the state of the functions of github_utils.py
utilities == <<scoreVars, retryVars>>
\* what the graph builders leave alone
loaded == <<repo_data, repo_map, topic_to_repos, utilities>>
fullLocals == <<edge_count, added_edges, topic_idx, repos, i, j>>
egoLocals == <<start_repo, visited, current_level, next_level, level, todo>>

-----------------------------------------------------------------------------
(* Program constants.                                                      *)

max_edges == 1000
fanout_cap == 8
levels == 4
max_nodes == 150
topics_per_node == 5
repos_per_topic == 5

MAX_RETRIES == 5
BASE_DELAY == 2

(* Bounds of the model.                                                    *)

MaxRepos == 3       \* repositories of an exhaustively enumerated input
MaxSeeds == 3       \* an ego call takes one of the first MaxSeeds names, or a missing one
MaxFreeOrder == 4   \* frontiers up to this size are iterated in every order
NGroups == 37       \* groups of the clustered input
GroupSize == 8      \* repositories of one group of the clustered input
DupLen == 8         \* repetitions of a topic in the repeated-topic input
MaxBaseDelay == 3   \* retry_decorator is given a base_delay of 1..MaxBaseDelay

NullValue == "<null>"

-----------------------------------------------------------------------------
(* Helpers on sequences and sets.                                          *)

Min(S) == CHOOSE x \in S : \A y \in S : x <= y
Max(S) == CHOOSE x \in S : \A y \in S : x >= y

\* Python's seq[:n]
Prefix(seq, n) == IF Len(seq) > n THEN SubSeq(seq, 1, n) ELSE seq

\* Python's set(seq)
SetOf(seq) == {seq[k] : k \in 1..Len(seq)}

Repeat(x, n) == [k \in 1..n |-> x]

-----------------------------------------------------------------------------
(* Input records.  The optional fields are a function of the position, so  *)
(* that the inputs differ in names and topics only.                        *)

StarOf(n) == <<150001, 150000, 0>>[(n % 3) + 1]
LanguageOf(n) == <<"Python", NullValue, "Go">>[(n % 3) + 1]
ActivityOf(n) == <<0, 15, 100>>[(n % 3) + 1]

Record(n, topics) ==
    [full_name |-> n, topics |-> topics, activity_score |-> ActivityOf(n),
     star_count |-> StarOf(n), language |-> LanguageOf(n)]

\* Topic arrays of the exhaustively enumerated inputs.
TopicChoices ==
    {<<>>, <<1>>, <<2>>, <<1, 2>>, <<2, 1>>, <<2, 3>>, <<1, 1, 2>>, <<1, 2, 3>>}

SmallInputs ==
    UNION {{[n \in 1..len |-> Record(n, f[n])] : f \in [1..len -> TopicChoices]}
              : len \in 0..MaxRepos}

\* A tree of repositories: every inner repository n carries K topics of its
\* own, each shared with Fan children, and every repository but the root
\* carries, last, the topic it shares with its parent.
RECURSIVE TreeSize(_, _)
TreeSize(B, D) == IF D = 0 THEN 1 ELSE 1 + B * TreeSize(B, D - 1)

TreeTopics(K, Fan, Depth, n) ==
    LET B == K * Fan
        own == IF Depth > 0 /\ n <= TreeSize(B, Depth - 1)
               THEN [k \in 1..K |-> (n - 1) * K + k] ELSE <<>>
        up == IF n > 1
              THEN <<(((n - 2) \div B)) * K + (((n - 2) % B) \div Fan) + 1>>
              ELSE <<>>
    IN own \o up

Tree(K, Fan, Depth) ==
    [n \in 1..TreeSize(K * Fan, Depth) |-> Record(n, TreeTopics(K, Fan, Depth, n))]

\* <<K, Fan, Depth>>: a chain of 6, a tree of 157 and a star whose centre
\* has 6 topics of 6 repositories each.
TreeShapes == {<<1, 1, 5>>, <<3, 4, 2>>, <<6, 5, 1>>}

\* NGroups groups of GroupSize repositories: every repository carries
\* topic 1, and after it the topic of its group.
Groups ==
    [n \in 1..(NGroups * GroupSize) |-> Record(n, <<1, ((n - 1) \div GroupSize) + 2>>)]

\* Two repositories sharing topics 1 and 2, the first listing each DupLen times.
DupPair ==
    <<Record(1, Repeat(1, DupLen) \o Repeat(2, DupLen)), Record(2, <<1, 2>>)>>

\* Three repositories under topic 1, which is the only topic of the first
\* two and the sixth topic of the third.
Lopsided ==
    <<Record(1, <<1>>), Record(2, <<1>>), Record(3, <<2, 3, 4, 5, 6, 1>>)>>

Inputs ==
    SmallInputs \cup {Tree(s[1], s[2], s[3]) : s \in TreeShapes}
    \cup {Groups, DupPair, Lopsided}

\* The keys of a record the program reads besides full_name.
OptionalKeys == {"topics", "activity_score", "star_count", "language"}

\* Python's None, whatever the type of the values it stands among
IsNone(v) == ToString(v) = ToString(NullValue)

\* The record `base` with one key left out, or with JSON null under it.
Without(base, key) == [k \in (DOMAIN base) \ {key} |-> base[k]]
WithNull(base, key) == [base EXCEPT ![key] = NullValue]

\* <<key, how>>: two repositories sharing topics 1 and 2, the second with
\* one of the keys absent or null.
SparseShapes == OptionalKeys \X {"absent", "null"}

SparseInput(s) ==
    <<Record(1, <<1, 2>>),
      IF s[2] = "absent" THEN Without(Record(2, <<1, 2>>), s[1])
      ELSE WithNull(Record(2, <<1, 2>>), s[1])>>

-----------------------------------------------------------------------------
(* __init__: repo_map and the topic index.                                 *)

Names(data) == {data[k].full_name : k \in 1..Len(data)}

build_repo_map(data) ==
    [n \in Names(data) |->
        data[Max({k \in 1..Len(data) : data[k].full_name = n})]]

HasTopic(tm, topic) == \E k \in 1..Len(tm) : tm[k].topic = topic

\* The appends of _build_topic_mapping, as positions <<r, k>>: topic k of
\* record r; the loops run through them in the order Before.
Appends(data) ==
    UNION {{<<r, k>> : k \in 1..Len(data[r].topics)} : r \in 1..Len(data)}

Before(p, q) == p[1] < q[1] \/ (p[1] = q[1] /\ p[2] < q[2])

\* The elements of S, a set of positions, in the order the loops reach them.
InLoopOrder(S) ==
    [n \in 1..Cardinality(S) |->
        CHOOSE p \in S : Cardinality({q \in S : Before(q, p)}) = n - 1]

\* A key is created by the first append of its topic and keeps its place;
\* every append of the topic adds the record's full_name at the end of its list.
build_topic_mapping(data) ==
    LET all == Appends(data)
        topicAt(p) == data[p[1]].topics[p[2]]
        firsts == {p \in all : \A q \in all : topicAt(q) = topicAt(p) => ~Before(q, p)}
        keys == InLoopOrder(firsts)
        listOf(t) == LET mine == InLoopOrder({p \in all : topicAt(p) = t})
                     IN [n \in 1..Len(mine) |-> data[mine[n][1]].full_name]
    IN [n \in 1..Len(keys) |->
           [topic |-> topicAt(keys[n]), repos |-> listOf(topicAt(keys[n]))]]

\* self.topic_to_repos.get(topic, [])
TopicGet(tm, topic) ==
    IF HasTopic(tm, topic)
    THEN tm[CHOOSE k \in 1..Len(tm) : tm[k].topic = topic].repos
    ELSE <<>>

-----------------------------------------------------------------------------
(* nx.Graph.                                                               *)

EmptyGraph == [nodes |-> <<>>, edges |-> <<>>]

NoAttrs == <<>>

Merge(old, new) ==
    [k \in (DOMAIN old) \cup (DOMAIN new) |-> IF k \in DOMAIN new THEN new[k] ELSE old[k]]

\* G.add_node(n, **attrs): creates the node or updates its attributes
add_node(g, n, attrs) ==
    [g EXCEPT !.nodes =
        [m \in (DOMAIN g.nodes) \cup {n} |->
            IF m = n
            THEN (IF n \in DOMAIN g.nodes THEN Merge(g.nodes[n], attrs) ELSE attrs)
            ELSE g.nodes[m]]]

\* G.add_edge(a, b, weight=w): creates missing endpoints without attributes
add_edge(g, a, b, w) ==
    [nodes |-> [m \in (DOMAIN g.nodes) \cup {a, b} |->
                   IF m \in DOMAIN g.nodes THEN g.nodes[m] ELSE NoAttrs],
     edges |-> [e \in (DOMAIN g.edges) \cup {{a, b}} |->
                   IF e = {a, b} THEN [weight |-> w] ELSE g.edges[e]]]

number_of_nodes(g) == Cardinality(DOMAIN g.nodes)
number_of_edges(g) == Cardinality(DOMAIN g.edges)

\* repo["language"] or "Unknown"
LangOrUnknown(v) == IF v \in {NullValue, ""} THEN "Unknown" ELSE v

NoOutcome == [kind |-> "none"]

\* repo[key] raises KeyError
Missing(repo, key) == key \notin DOMAIN repo

\* `for topic in repo["topics"]` raises: KeyError without the key, TypeError
\* on None
TopicsFault(repo) ==
    IF Missing(repo, "topics") THEN "KeyError"
    ELSE IF IsNone(repo.topics) THEN "TypeError"
    ELSE "none"

\* the first exception of _build_topic_mapping over the records, if any
LoadFault(data) ==
    LET bad == {k \in 1..Len(data) : TopicsFault(data[k]) # "none"}
    IN IF bad = {} THEN "none" ELSE TopicsFault(data[Min(bad)])

\* add_node(...) reads repo["activity_score"], repo["star_count"] and
\* repo["language"]
NodeReadable(repo) ==
    \A key \in {"activity_score", "star_count", "language"} : ~Missing(repo, key)

\* the records on which add_node(...) raises
Unreadable(data) == {k \in 1..Len(data) : ~NodeReadable(data[k])}

\* no function of github_utils.py has been called
ScoreAtRest ==
    /\ activity_data = <<>>
    /\ total_score = NoOutcome

RetryAtRest ==
    /\ max_retries = MAX_RETRIES
    /\ base_delay = BASE_DELAY
    /\ rpc = "rest"
    /\ retries = 0
    /\ invocations = 0
    /\ caught = NullValue
    /\ slept = <<>>
    /\ wrapped = NoOutcome

UtilitiesAtRest == ScoreAtRest /\ RetryAtRest

-----------------------------------------------------------------------------
Init ==
    /\ UtilitiesAtRest
    /\ \/ repo_data \in Inputs
       \/ \E s \in SparseShapes : repo_data = SparseInput(s)
    /\ IF LoadFault(repo_data) = "none"
       THEN /\ repo_map = build_repo_map(repo_data)
            /\ topic_to_repos = build_topic_mapping(repo_data)
            /\ pc = "idle"
            /\ outcome = NoOutcome
       ELSE /\ repo_map = <<>>
            /\ topic_to_repos = <<>>
            /\ pc = "failed"
            /\ outcome = [kind |-> LoadFault(repo_data)]
    /\ G = EmptyGraph
    /\ edge_count = 0
    /\ added_edges = {}
    /\ topic_idx = 0
    /\ repos = <<>>
    /\ i = 0
    /\ j = 0
    /\ start_repo = 0
    /\ visited = {}
    /\ current_level = {}
    /\ next_level = {}
    /\ level = 0
    /\ todo = {}

-----------------------------------------------------------------------------
(* _build_full_graph.                                                      *)

\* the attributes add_node gives a repository in the global graph
FullNodeAttrs(repo) ==
    [activity |-> repo.activity_score, star |-> repo.star_count,
     lang |-> LangOrUnknown(repo.language)]

\* Variant of AllNodes that leaves out the repositories without topics.
AllNodesWithTopics(data) ==
    [nodes |-> [n \in {m \in Names(data) :
                          \E k \in 1..Len(data) :
                              data[k].full_name = m /\ data[k].topics # <<>>} |->
                   FullNodeAttrs(data[Max({k \in 1..Len(data) : data[k].full_name = n})])],
     edges |-> <<>>]

\* step 1: for repo in self.repo_data: G.add_node(repo["full_name"], ...)
AllNodes(data) ==
    [nodes |-> [n \in Names(data) |->
                   FullNodeAttrs(data[Max({k \in 1..Len(data) : data[k].full_name = n})])],
     edges |-> <<>>]

\* if len(repos) > 8: repos = repos[:8]
Truncated(list) == Prefix(list, fanout_cap)

\* tuple(sorted([r1, r2])), an unordered pair
edge_key(r1, r2) == {r1, r2}

\* len(set(topics of r1) & set(topics of r2))
shared_topics(r1, r2) ==
    Cardinality(SetOf(repo_map[r1].topics) \cap SetOf(repo_map[r2].topics))

\* Variant of Qualifies that accepts a single shared topic; the edge
\* properties of the global graph must not survive it.
QualifiesWithOne(shared) == shared >= 1

\* if shared >= 2
Qualifies(shared) == shared >= 2

\* Variant of CapReached that compares with > and so stops one edge late.
CapReachedLate(count) == count > max_edges

\* if edge_count >= max_edges
CapReached(count) == count >= max_edges

ResetLocals ==
    /\ G' = EmptyGraph
    /\ edge_count' = 0
    /\ added_edges' = {}
    /\ topic_idx' = 0
    /\ repos' = <<>>
    /\ i' = 0
    /\ j' = 0
    /\ start_repo' = 0
    /\ visited' = {}
    /\ current_level' = {}
    /\ next_level' = {}
    /\ level' = 0
    /\ todo' = {}

\* the call: G, max_edges, edge_count, the nodes, added_edges
FullCall ==
    /\ pc = "idle"
    /\ Unreadable(repo_data) = {}
    /\ G' = AllNodes(repo_data)
    /\ edge_count' = 0
    /\ added_edges' = {}
    /\ topic_idx' = 1
    /\ pc' = "full_topic"
    /\ outcome' = NoOutcome
    /\ UNCHANGED <<loaded, repos, i, j, egoLocals>>

\* the call on records of which one lacks a key add_node reads: KeyError
FullCallFault ==
    /\ pc = "idle"
    /\ Unreadable(repo_data) # {}
    /\ outcome' = [kind |-> "KeyError"]
    /\ UNCHANGED <<loaded, pc, G, fullLocals, egoLocals>>

\* for topic, repos in self.topic_to_repos.items(): the next topic
FullTopic ==
    /\ pc = "full_topic"
    /\ topic_idx <= Len(topic_to_repos)
    /\ repos' = Truncated(topic_to_repos[topic_idx].repos)
    /\ i' = 0
    /\ pc' = "full_i"
    /\ UNCHANGED <<loaded, G, edge_count, added_edges, topic_idx, j, egoLocals, outcome>>

\* the topics are exhausted: print and return G
FullReturn ==
    /\ pc = "full_topic"
    /\ topic_idx > Len(topic_to_repos)
    /\ outcome' = [kind |-> "full", graph |-> G]
    /\ pc' = "idle"
    /\ ResetLocals
    /\ UNCHANGED loaded

\* for i in range(len(repos)): the next i
FullOuter ==
    /\ pc = "full_i"
    /\ i < Len(repos)
    /\ j' = i + 1
    /\ pc' = "full_j"
    /\ UNCHANGED <<loaded, G, edge_count, added_edges, topic_idx, repos, i, egoLocals, outcome>>

\* range(len(repos)) is exhausted: on to the next topic
FullOuterDone ==
    /\ pc = "full_i"
    /\ i >= Len(repos)
    /\ topic_idx' = topic_idx + 1
    /\ pc' = "full_topic"
    /\ UNCHANGED <<loaded, G, edge_count, added_edges, repos, i, j, egoLocals, outcome>>

\* the body of the inner loop for the pair repos[i], repos[j]
FullPair ==
    /\ pc = "full_j"
    /\ j < Len(repos)
    /\ ~CapReached(edge_count)
    /\ LET r1 == repos[i + 1]
           r2 == repos[j + 1]
           shared == shared_topics(r1, r2)
       IN IF edge_key(r1, r2) \notin added_edges /\ Qualifies(shared)
          THEN /\ G' = add_edge(G, r1, r2, shared)
               /\ added_edges' = added_edges \cup {edge_key(r1, r2)}
               /\ edge_count' = edge_count + 1
          ELSE UNCHANGED <<G, added_edges, edge_count>>
    /\ j' = j + 1
    /\ UNCHANGED <<loaded, pc, topic_idx, repos, i, egoLocals, outcome>>

\* if edge_count >= max_edges: break (out of the inner loop)
FullInnerBreak ==
    /\ pc = "full_j"
    /\ j < Len(repos)
    /\ CapReached(edge_count)
    /\ pc' = "full_i_tail"
    /\ UNCHANGED <<loaded, G, fullLocals, egoLocals, outcome>>

\* range(i+1, len(repos)) is exhausted
FullInnerDone ==
    /\ pc = "full_j"
    /\ j >= Len(repos)
    /\ pc' = "full_i_tail"
    /\ UNCHANGED <<loaded, G, fullLocals, egoLocals, outcome>>

\* after the inner loop: if edge_count >= max_edges: break (out of the loop over i)
FullOuterBreak ==
    /\ pc = "full_i_tail"
    /\ CapReached(edge_count)
    /\ topic_idx' = topic_idx + 1
    /\ pc' = "full_topic"
    /\ UNCHANGED <<loaded, G, edge_count, added_edges, repos, i, j, egoLocals, outcome>>

\* after the inner loop, below the cap: the next i
FullOuterNext ==
    /\ pc = "full_i_tail"
    /\ ~CapReached(edge_count)
    /\ i' = i + 1
    /\ pc' = "full_i"
    /\ UNCHANGED <<loaded, G, edge_count, added_edges, topic_idx, repos, j, egoLocals, outcome>>

FullStep ==
    \/ FullCall \/ FullCallFault \/ FullTopic \/ FullReturn \/ FullOuter \/ FullOuterDone
    \/ FullPair \/ FullInnerBreak \/ FullInnerDone \/ FullOuterBreak \/ FullOuterNext

-----------------------------------------------------------------------------
(* _build_4level_graph.                                                    *)

\* the names an ego call is made with; 0 is the full_name of no record
SeedChoices == 0..MaxSeeds

\* the attributes add_node gives a repository finalized in round lvl
EgoNodeAttrs(repo, lvl) ==
    [activity |-> repo.activity_score, star |-> repo.star_count,
     lang |-> LangOrUnknown(repo.language), level |-> lvl]

\* Variant of Candidates that reads every topic of the repository.
CandidatesOfAllTopics(repo) ==
    UNION {SetOf(Prefix(TopicGet(topic_to_repos, t), repos_per_topic))
              : t \in SetOf(repo.topics)}

\* for topic in repo["topics"][:5]: self.topic_to_repos.get(topic, [])[:5]
Candidates(repo) ==
    UNION {SetOf(Prefix(TopicGet(topic_to_repos, t), repos_per_topic))
              : t \in SetOf(Prefix(repo.topics, topics_per_node))}

\* Variant of Accepts without `rr not in visited`.
AcceptsVisited(rr, vis) == Cardinality(vis) < max_nodes

\* if rr not in visited and len(visited) < max_nodes
Accepts(rr, vis) == rr \notin vis /\ Cardinality(vis) < max_nodes

\* if not current_level or len(visited) >= max_nodes: break
RoundStops(cur, vis) == cur = {} \/ Cardinality(vis) >= max_nodes

\* Variant of add_edges with add_edge after the loop over the candidates
\* instead of inside it: only one candidate gets its edge.
add_edge_after_loop(g, a, S, w) ==
    IF S = {} THEN g ELSE add_edge(g, a, Max(S), w)

\* G.add_edge(a, rr, weight=w) for every rr of S
add_edges(g, a, S, w) ==
    IF S = {} THEN g
    ELSE [nodes |-> [m \in (DOMAIN g.nodes) \cup {a} \cup S |->
                        IF m \in DOMAIN g.nodes THEN g.nodes[m] ELSE NoAttrs],
          edges |-> [e \in (DOMAIN g.edges) \cup {{a, rr} : rr \in S} |->
                        IF e \in {{a, rr} : rr \in S} THEN [weight |-> w]
                        ELSE g.edges[e]]]

\* The repositories `for repo_name in current_level` may take next: a set is
\* iterated in an order the program does not choose.  A frontier no larger
\* than MaxFreeOrder is followed in every order, a larger one in ascending
\* and in descending order of the names.
NextOf(cur, rest) ==
    IF rest = {} \/ Cardinality(cur) <= MaxFreeOrder THEN rest
    ELSE IF rest = cur THEN {Min(rest), Max(rest)}
    ELSE IF Min(cur) \in rest THEN {Max(rest)}
    ELSE {Min(rest)}

\* Variant of EgoCallMissing that looks the name up after the traversal
\* state has been set up.
EgoCallMissingLate ==
    /\ pc = "idle"
    /\ \E name \in SeedChoices :
          /\ name \notin DOMAIN repo_map
          /\ start_repo' = name
          /\ current_level' = {name}
          /\ outcome' = [kind |-> "ValueError", name |-> name]
    /\ UNCHANGED <<loaded, pc, G, fullLocals, visited, next_level, level, todo>>

\* the call with a name that is no key of repo_map: raise ValueError
EgoCallMissing ==
    /\ pc = "idle"
    /\ \E name \in SeedChoices :
          /\ name \notin DOMAIN repo_map
          /\ outcome' = [kind |-> "ValueError", name |-> name]
    /\ UNCHANGED <<loaded, pc, G, fullLocals, egoLocals>>

\* the call with a key of repo_map: G, visited, current_level
EgoCall ==
    /\ pc = "idle"
    /\ \E name \in SeedChoices :
          /\ name \in DOMAIN repo_map
          /\ start_repo' = name
          /\ current_level' = {name}
    /\ G' = EmptyGraph
    /\ visited' = {}
    /\ level' = 0
    /\ pc' = "ego_round"
    /\ outcome' = NoOutcome
    /\ UNCHANGED <<loaded, fullLocals, next_level, todo>>

\* for level in range(levels + 1): a round begins
EgoRound ==
    /\ pc = "ego_round"
    /\ level <= levels
    /\ ~RoundStops(current_level, visited)
    /\ next_level' = {}
    /\ todo' = current_level
    /\ pc' = "ego_expand"
    /\ UNCHANGED <<loaded, G, fullLocals, start_repo, visited, current_level, level, outcome>>

\* break, or range(levels + 1) is exhausted: print and return G
EgoReturn ==
    /\ pc = "ego_round"
    /\ level > levels \/ RoundStops(current_level, visited)
    /\ outcome' = [kind |-> "ego", graph |-> G, seed |-> start_repo]
    /\ pc' = "idle"
    /\ ResetLocals
    /\ UNCHANGED loaded

\* if repo_name in visited: continue
EgoSkip ==
    /\ pc = "ego_expand"
    /\ \E repo_name \in NextOf(current_level, todo) :
          /\ repo_name \in visited
          /\ todo' = todo \ {repo_name}
    /\ UNCHANGED <<loaded, pc, G, fullLocals, start_repo, visited, current_level,
                   next_level, level, outcome>>

\* Variant of EgoExpand without `if repo_name in visited: continue`.
EgoExpandRevisiting ==
    /\ pc = "ego_expand"
    /\ \E repo_name \in NextOf(current_level, todo) :
          /\ NodeReadable(repo_map[repo_name])
          /\ LET vis == visited \cup {repo_name}
                 repo == repo_map[repo_name]
                 found == {rr \in Candidates(repo) : Accepts(rr, vis)}
             IN /\ visited' = vis
                /\ next_level' = next_level \cup found
                /\ G' = add_edges(add_node(G, repo_name, EgoNodeAttrs(repo, level)),
                                  repo_name, found, 1)
          /\ todo' = todo \ {repo_name}
    /\ UNCHANGED <<loaded, pc, fullLocals, start_repo, current_level, level, outcome>>

\* the body of the loop over current_level for a repository not yet visited
EgoExpand ==
    /\ pc = "ego_expand"
    /\ \E repo_name \in NextOf(current_level, todo) :
          /\ repo_name \notin visited
          /\ NodeReadable(repo_map[repo_name])
          /\ LET vis == visited \cup {repo_name}
                 repo == repo_map[repo_name]
                 found == {rr \in Candidates(repo) : Accepts(rr, vis)}
             IN /\ visited' = vis
                /\ next_level' = next_level \cup found
                /\ G' = add_edges(add_node(G, repo_name, EgoNodeAttrs(repo, level)),
                                  repo_name, found, 1)
          /\ todo' = todo \ {repo_name}
    /\ UNCHANGED <<loaded, pc, fullLocals, start_repo, current_level, level, outcome>>

\* the body for a repository whose record lacks a key add_node reads:
\* KeyError ends the call
EgoExpandFault ==
    /\ pc = "ego_expand"
    /\ \E repo_name \in NextOf(current_level, todo) :
          /\ repo_name \notin visited
          /\ ~NodeReadable(repo_map[repo_name])
    /\ outcome' = [kind |-> "KeyError"]
    /\ pc' = "idle"
    /\ ResetLocals
    /\ UNCHANGED loaded

\* current_level = next_level, and the next value of level
EgoRoundEnd ==
    /\ pc = "ego_expand"
    /\ todo = {}
    /\ current_level' = next_level
    /\ level' = level + 1
    /\ pc' = "ego_round"
    /\ UNCHANGED <<loaded, G, fullLocals, start_repo, visited, next_level, todo, outcome>>

EgoStep ==
    \/ EgoCallMissing \/ EgoCall \/ EgoRound \/ EgoReturn
    \/ EgoSkip \/ EgoExpand \/ EgoExpandFault \/ EgoRoundEnd

-----------------------------------------------------------------------------
(* _plot_graph: the labels.  A full_name is a number in the builders; its  *)
(* text, a sequence of characters, is what the label is cut from.          *)

\* The texts of the full_names: owner/name, a name of more than 12
\* characters, no '/', two '/', and a '/' at the end.
NameTexts ==
    <<<<"o", "/", "r", "e", "p", "o">>,
      <<"o", "/", "a", "b", "c", "d", "e", "f", "g", "h", "i", "j", "k", "l", "m", "n">>,
      <<"p", "l", "a", "i", "n">>,
      <<"a", "/", "b", "/", "c", "d">>,
      <<"o", "/", "r", "/">>>>

NameText(n) == NameTexts[(n % Len(NameTexts)) + 1]

\* text.split("/"): the pieces between the separators, empty ones included
split(text) ==
    LET cuts == {0} \cup {k \in 1..Len(text) : text[k] = "/"}
        end(c) == Min({k \in (cuts \cup {Len(text) + 1}) : k > c})
        start(n) == CHOOSE c \in cuts : Cardinality({d \in cuts : d < c}) = n - 1
    IN [n \in 1..Cardinality(cuts) |->
           IF start(n) + 1 > end(start(n)) - 1 THEN <<>>
           ELSE SubSeq(text, start(n) + 1, end(start(n)) - 1)]

\* node.split("/")[-1][:12]
label_of(text) == Prefix(split(text)[Len(split(text))], 12)

\* Variant of label_eligible with >= for the star threshold.
label_eligible_inclusive(is_4level, attrs) == is_4level \/ attrs.star >= 150000

\* if is_4level or attrs["star"] > 150000
label_eligible(is_4level, attrs) == is_4level \/ attrs.star > 150000

\* The exception the loop over G.nodes raises, "none" without one:
\* attrs["activity"] on a node without attributes, None * 10, and
\* None > 150000 in the global graph.
plot_error(g, is_4level) ==
    IF \E n \in DOMAIN g.nodes : "activity" \notin DOMAIN g.nodes[n] THEN "KeyError"
    ELSE IF \E n \in DOMAIN g.nodes :
               \/ IsNone(g.nodes[n].activity)
               \/ ~is_4level /\ IsNone(g.nodes[n].star)
         THEN "TypeError"
    ELSE "none"

\* labels = {} ... labels[node] = node.split("/")[-1][:12]
labels_of(g, is_4level) ==
    [n \in {m \in DOMAIN g.nodes : label_eligible(is_4level, g.nodes[m])} |->
        label_of(NameText(n))]

\* _plot_graph(G, title, is_4level) on the graph a builder returned
PlotGraph ==
    /\ pc = "idle"
    /\ outcome.kind \in {"full", "ego"}
    /\ plot_error(outcome.graph, outcome.kind = "ego") = "none"
    /\ outcome' = [kind |-> "plot", graph |-> outcome.graph,
                   is_4level |-> outcome.kind = "ego",
                   labels |-> labels_of(outcome.graph, outcome.kind = "ego")]
    /\ UNCHANGED <<loaded, pc, G, fullLocals, egoLocals>>

\* _plot_graph raising in its loop over G.nodes
PlotRaise ==
    /\ pc = "idle"
    /\ outcome.kind \in {"full", "ego"}
    /\ plot_error(outcome.graph, outcome.kind = "ego") # "none"
    /\ outcome' = [kind |-> "plot_error",
                   error |-> plot_error(outcome.graph, outcome.kind = "ego")]
    /\ UNCHANGED <<loaded, pc, G, fullLocals, egoLocals>>

PlotStep == PlotGraph \/ PlotRaise

Next == FullStep \/ EgoStep \/ PlotStep

Spec == Init /\ [][Next]_vars

-----------------------------------------------------------------------------
(* Two calls of _build_4level_graph in a row for the same seed, the        *)
(* graph of the first kept by the caller while the second runs.            *)

\* the second call: as EgoCall, for the seed of the graph returned last
EgoCallAgain ==
    /\ pc = "idle"
    /\ outcome.kind = "ego"
    /\ start_repo' = outcome.seed
    /\ current_level' = {outcome.seed}
    /\ G' = EmptyGraph
    /\ visited' = {}
    /\ level' = 0
    /\ pc' = "ego_round"
    /\ UNCHANGED <<loaded, fullLocals, next_level, todo, outcome>>

TwoRunsNext ==
    \/ EgoCall \/ EgoCallAgain \/ EgoRound \/ EgoReturn
    \/ EgoSkip \/ EgoExpand \/ EgoExpandFault \/ EgoRoundEnd

TwoRunsSpec == Init /\ [][TwoRunsNext]_vars

-----------------------------------------------------------------------------
(* github_utils.py: calculate_activity_score.  Scores are exact: the      *)
(* sub-scores are counted in thousandths, the returned value in           *)
(* hundredths.                                                            *)

\* no visualizer has been constructed
VisualizerAtRest ==
    /\ repo_data = <<>>
    /\ repo_map = <<>>
    /\ topic_to_repos = <<>>
    /\ pc = "idle"
    /\ G = EmptyGraph
    /\ edge_count = 0
    /\ added_edges = {}
    /\ topic_idx = 0
    /\ repos = <<>>
    /\ i = 0
    /\ j = 0
    /\ start_repo = 0
    /\ visited = {}
    /\ current_level = {}
    /\ next_level = {}
    /\ level = 0
    /\ todo = {}
    /\ outcome = NoOutcome

ActivityKeys ==
    {"commits_total", "prs_merged", "issues_closed", "issues_open", "contributors_total"}

\* The counts of the activity inputs: each sub-score below, at and above
\* its ceiling.
ActivityCounts ==
    [commits_total : {0, 7, 999, 1000, 5000}, prs_merged : {0, 33, 100, 500},
     issues_closed : {0, 49, 100}, issues_open : {0, 60},
     contributors_total : {0, 99, 500}]

\* The keys an activity_data may hold: all, all but one, none.
ActivityKeySets ==
    {ActivityKeys, {}} \cup {ActivityKeys \ {k} : k \in ActivityKeys}

\* activity_data.get(key, 0)
GetOrZero(data, key) == IF key \in DOMAIN data THEN data[key] ELSE 0

Smaller(a, b) == IF a <= b THEN a ELSE b
Larger(a, b) == IF a >= b THEN a ELSE b

\* min(commits / 1000, 1) * 40, in thousandths
commits_score(commits) == Smaller(commits, 1000) * 40

\* min(prs_merged / 100, 1) * 20, in thousandths
prs_score(prs_merged) == Smaller(prs_merged * 10, 1000) * 20

\* Variant of issues_score without max(..., 0): more open than closed
\* issues count against the repository.
issues_score_unclamped(issues_resolved) == Smaller(issues_resolved * 20, 1000) * 20

\* min(max(issues_resolved / 50, 0), 1) * 20, in thousandths
issues_score(issues_resolved) == Smaller(Larger(issues_resolved * 20, 0), 1000) * 20

\* min(contributors / 100, 1) * 20, in thousandths
contributors_score(contributors) == Smaller(contributors * 10, 1000) * 20

\* round(x, 2) of x thousandths, in hundredths: to the nearest, a tie to
\* the even one
round2(x) ==
    LET q == x \div 10
        r == x % 10
    IN IF r > 5 \/ (r = 5 /\ q % 2 = 1) THEN q + 1 ELSE q

calculate_activity_score(data) ==
    LET commits == GetOrZero(data, "commits_total")
        prs_merged == GetOrZero(data, "prs_merged")
        issues_resolved == GetOrZero(data, "issues_closed") - GetOrZero(data, "issues_open")
        contributors == GetOrZero(data, "contributors_total")
    IN round2(commits_score(commits) + prs_score(prs_merged)
              + issues_score(issues_resolved) + contributors_score(contributors))

ScoreInit ==
    /\ VisualizerAtRest
    /\ RetryAtRest
    /\ \E counts \in ActivityCounts, keys \in ActivityKeySets :
          activity_data = [k \in keys |-> counts[k]]
    /\ total_score = NoOutcome

\* calculate_activity_score(activity_data)
ScoreCall ==
    /\ total_score' = [kind |-> "score", value |-> calculate_activity_score(activity_data)]
    /\ UNCHANGED <<visualizer, retryVars, activity_data>>

ScoreNext == ScoreCall

ScoreSpec == ScoreInit /\ [][ScoreNext]_vars

-----------------------------------------------------------------------------
(* github_utils.py: retry_decorator.  One call of the wrapper around a     *)
(* func that returns or raises as it pleases at every invocation.          *)

\* what func may return, and what it may raise
Returns == {"r1", "r2"}
Exceptions == {"E1", "E2"}

\* Variant of delay that starts the backoff at base_delay.
delay_from_base(base, failures) == base * (2 ^ (failures - 1))

\* delay = base_delay * (2 ** retries)
delay(base, failures) == base * (2 ^ failures)

RetryInit ==
    /\ VisualizerAtRest
    /\ ScoreAtRest
    /\ max_retries \in 0..MAX_RETRIES
    /\ base_delay \in 1..MaxBaseDelay
    /\ rpc = "while"
    /\ retries = 0
    /\ invocations = 0
    /\ caught = NullValue
    /\ slept = <<>>
    /\ wrapped = NoOutcome

\* while retries < max_retries: try: return func(*args, **kwargs)
RetryReturn ==
    /\ rpc = "while"
    /\ retries < max_retries
    /\ invocations' = invocations + 1
    /\ \E r \in Returns : wrapped' = [kind |-> "return", value |-> r]
    /\ rpc' = "done"
    /\ UNCHANGED <<visualizer, scoreVars, max_retries, base_delay, retries, caught, slept>>

\* func raises: the except block
RetryExcept ==
    /\ rpc = "while"
    /\ retries < max_retries
    /\ invocations' = invocations + 1
    /\ \E e \in Exceptions : caught' = e
    /\ retries' = retries + 1
    /\ slept' = Append(slept, delay(base_delay, retries'))
    /\ IF retries' = max_retries
       THEN /\ wrapped' = [kind |-> "raise", exception |-> caught']
            /\ rpc' = "done"
       ELSE UNCHANGED <<wrapped, rpc>>
    /\ UNCHANGED <<visualizer, scoreVars, max_retries, base_delay>>

\* the loop test fails: return None
RetryNone ==
    /\ rpc = "while"
    /\ retries >= max_retries
    /\ wrapped' = [kind |-> "None"]
    /\ rpc' = "done"
    /\ UNCHANGED <<visualizer, scoreVars, max_retries, base_delay, retries,
                   invocations, caught, slept>>

RetryNext == RetryReturn \/ RetryExcept \/ RetryNone

RetrySpec == RetryInit /\ [][RetryNext]_vars

-----------------------------------------------------------------------------
(* Properties.                                                             *)

FullPcs == {"full_topic", "full_i", "full_j", "full_i_tail"}
EgoPcs == {"ego_round", "ego_expand"}

\* the topics of the record(s) named n, read from the input
TopicSetOf(n) ==
    UNION {SetOf(repo_data[k].topics) : k \in {m \in 1..Len(repo_data) : repo_data[m].full_name = n}}

SharedCount(a, b) == Cardinality(TopicSetOf(a) \cap TopicSetOf(b))

\* C1: while _build_4level_graph runs on a seed of the repository set, the
\* visited set never holds more than max_nodes = 150 repositories, in the
\* middle of a round as well as between rounds.
C1_VisitedWithinMaxNodes ==
    pc \in EgoPcs => Cardinality(visited) <= max_nodes

\* C2: while _build_full_graph runs, and in the graph it returns, the graph
\* has at most max_edges = 1000 edges, and edge_count equals the number of
\* edges of the graph.
C2_EdgesWithinCap ==
    /\ pc \in FullPcs =>
          /\ edge_count = number_of_edges(G)
          /\ number_of_edges(G) <= max_edges
    /\ outcome.kind = "full" => number_of_edges(outcome.graph) <= max_edges

\* the cap is reached while qualifying pairs are left
C2_Witness ==
    /\ outcome.kind = "full"
    /\ number_of_edges(outcome.graph) = max_edges
    /\ \E a, b \in Names(repo_data) :
          a # b /\ SharedCount(a, b) >= 2 /\ {a, b} \notin DOMAIN outcome.graph.edges

\* C3: in a graph returned by _build_full_graph every edge joins
\* repositories whose full topic sets share at least 2 topics and weighs
\* the number of topics they share; where repositories 1 and 2 share exactly
\* two topics and 1 and 3 exactly one, edge 1-2 has weight 2 and 1-3 is absent.
C3_EdgesOnlyForSharedTopics ==
    outcome.kind = "full" =>
        /\ \A e \in DOMAIN outcome.graph.edges :
              \A a, b \in e :
                 e = {a, b} =>
                    /\ SharedCount(a, b) >= 2
                    /\ outcome.graph.edges[e].weight = SharedCount(a, b)
        /\ (/\ Len(repo_data) = 3
            /\ SharedCount(1, 2) = 2
            /\ SharedCount(1, 3) = 1) =>
              /\ {1, 2} \in DOMAIN outcome.graph.edges
              /\ outcome.graph.edges[{1, 2}].weight = 2
              /\ {1, 3} \notin DOMAIN outcome.graph.edges

\* the scenario: 1 and 2 share two topics, 1 and 3 one, and the graph is built
C3_Witness ==
    /\ outcome.kind = "full"
    /\ Len(repo_data) = 3
    /\ SharedCount(1, 2) = 2
    /\ SharedCount(1, 3) = 1
    /\ {1, 2} \in DOMAIN outcome.graph.edges
    /\ {1, 3} \notin DOMAIN outcome.graph.edges

\* the repositories that carry topic t, read from the input
CarriersOf(t) == {n \in Names(repo_data) : t \in TopicSetOf(n)}

AllTopics == UNION {TopicSetOf(n) : n \in Names(repo_data)}

QualifyingPairs ==
    {e \in {{a, b} : a, b \in Names(repo_data)} :
        Cardinality(e) = 2 /\ \A a, b \in e : a # b => SharedCount(a, b) >= 2}

\* C4: when no topic is carried by more than 8 repositories and at most
\* 1000 unordered pairs of repositories share 2 or more topics, the graph
\* returned by _build_full_graph has an edge for every unordered pair of
\* distinct repositories that share 2 or more topics.
C4_EveryQualifyingPairHasEdge ==
    (/\ outcome.kind = "full"
     /\ \A t \in AllTopics : Cardinality(CarriersOf(t)) <= fanout_cap
     /\ Cardinality(QualifyingPairs) <= max_edges)
    => QualifyingPairs \subseteq DOMAIN outcome.graph.edges

\* C5: the graph returned by _build_full_graph has exactly one node per
\* input record, whatever the topics of the record; from no records it has
\* no nodes and no edges.
C5_OneNodePerRecord ==
    outcome.kind = "full" =>
        /\ number_of_nodes(outcome.graph) = Len(repo_data)
        /\ \A k \in 1..Len(repo_data) : repo_data[k].full_name \in DOMAIN outcome.graph.nodes
        /\ Len(repo_data) = 0 => outcome.graph = EmptyGraph

\* a graph with a repository that has no topics, and so no edge, and with an edge
C5_Witness ==
    /\ outcome.kind = "full"
    /\ \E k \in 1..Len(repo_data) :
          /\ repo_data[k].topics = <<>>
          /\ repo_data[k].full_name \in DOMAIN outcome.graph.nodes
          /\ \A e \in DOMAIN outcome.graph.edges : repo_data[k].full_name \notin e
    /\ number_of_edges(outcome.graph) > 0

HasLevel(g, n) == "level" \in DOMAIN g.nodes[n]

\* C6: in a graph returned by _build_4level_graph, every node with a level
\* L >= 1 has an edge to a node of level L - 1.
C6_ParentOneLevelUp ==
    outcome.kind = "ego" =>
        LET g == outcome.graph
        IN \A n \in DOMAIN g.nodes :
              (HasLevel(g, n) /\ g.nodes[n].level >= 1) =>
                 \E m \in DOMAIN g.nodes :
                    /\ {n, m} \in DOMAIN g.edges
                    /\ HasLevel(g, m)
                    /\ g.nodes[m].level = g.nodes[n].level - 1

\* a returned graph with a node at the last level
C6_Witness ==
    /\ outcome.kind = "ego"
    /\ \E n \in DOMAIN outcome.graph.nodes :
          HasLevel(outcome.graph, n) /\ outcome.graph.nodes[n].level = levels

\* C7: every node of a graph returned by _build_4level_graph carries
\* activity, star, lang and level, with level in 0..levels: every repository
\* that got an edge as a candidate is a finalized node as well.
C7_EveryNodeHasAttributes ==
    outcome.kind = "ego" =>
        \A n \in DOMAIN outcome.graph.nodes :
           /\ {"activity", "star", "lang", "level"} \subseteq DOMAIN outcome.graph.nodes[n]
           /\ outcome.graph.nodes[n].level \in 0..levels

SeedAloneAtLevelZero ==
    outcome.kind = "ego" =>
        LET g == outcome.graph
        IN /\ outcome.seed \in DOMAIN g.nodes
           /\ HasLevel(g, outcome.seed)
           /\ g.nodes[outcome.seed].level = 0
           /\ \A n \in DOMAIN g.nodes :
                 (HasLevel(g, n) /\ g.nodes[n].level = 0) => n = outcome.seed

LevelsKept ==
    (pc \in EgoPcs /\ pc' \in EgoPcs) =>
        \A n \in DOMAIN G.nodes :
           HasLevel(G, n) =>
              /\ n \in DOMAIN G'.nodes
              /\ HasLevel(G', n)
              /\ G'.nodes[n].level = G.nodes[n].level

\* C8: the graph returned for a valid seed holds the seed with level 0 and
\* no other node with level 0, and no step of the traversal changes the
\* level a node has been given.
C8_SeedLevelZeroLevelsKept ==
    []SeedAloneAtLevelZero /\ [][LevelsKept]_vars

\* a returned graph with nodes on levels 1 and 2 besides the seed
C8_Witness ==
    /\ outcome.kind = "ego"
    /\ \E n, m \in DOMAIN outcome.graph.nodes :
          /\ HasLevel(outcome.graph, n) /\ outcome.graph.nodes[n].level = 1
          /\ HasLevel(outcome.graph, m) /\ outcome.graph.nodes[m].level = 2

\* a call that raises changes outcome only, and names a missing repository
FailedCallChangesNothing ==
    (outcome'.kind = "ValueError" /\ outcome' # outcome) =>
        /\ outcome'.name \notin DOMAIN repo_map
        /\ UNCHANGED <<loaded, pc, G, fullLocals, egoLocals>>

\* a traversal is begun for keys of repo_map only, and from a fresh state
TraversalBegunForKeysOnly ==
    (pc = "idle" /\ pc' = "ego_round") =>
        /\ start_repo' \in DOMAIN repo_map
        /\ G' = EmptyGraph
        /\ visited' = {}
        /\ current_level' = {start_repo'}
        /\ level' = 0
        /\ UNCHANGED loaded

\* C9: _build_4level_graph called with a name that is no key of repo_map
\* raises the error that carries the name before G, visited or current_level
\* are set up, and leaves repo_data, repo_map and topic_to_repos as they
\* were; a call with a valid seed that follows starts from the same state as
\* one that no failed call precedes.
C9_MissingSeedRaisesAndChangesNothing ==
    [][FailedCallChangesNothing /\ TraversalBegunForKeysOnly]_vars

\* a failed call on a repository set that has valid seeds as well
C9_Witness ==
    /\ outcome.kind = "ValueError"
    /\ outcome.name \notin DOMAIN repo_map
    /\ repo_data # <<>>
    /\ pc = "idle"

\* c is one of the first repos_per_topic repositories listed under one of
\* the first topics_per_node topics of r
AmongFirst(r, c) ==
    \E p \in 1..Len(repo_map[r].topics) :
       /\ p <= topics_per_node
       /\ LET list == TopicGet(topic_to_repos, repo_map[r].topics[p])
          IN \E q \in 1..Len(list) : q <= repos_per_topic /\ list[q] = c

ExpansionWithinFirst ==
    pc = "ego_expand" =>
        \A r \in visited' \ visited :
           /\ \A e \in (DOMAIN G'.edges) \ (DOMAIN G.edges) :
                 r \in e /\ \A c \in e \ {r} : AmongFirst(r, c)
           /\ \A c \in next_level' \ next_level : AmongFirst(r, c)

LevelOneWithinFirst ==
    outcome.kind = "ego" =>
        \A n \in DOMAIN outcome.graph.nodes :
           (HasLevel(outcome.graph, n) /\ outcome.graph.nodes[n].level = 1) =>
              AmongFirst(outcome.seed, n)

\* C10: the expansion of a repository r adds an edge r-c, and c to the next
\* frontier, only for a c among the first repos_per_topic = 5 repositories
\* listed under one of the first topics_per_node = 5 topics of r; no node of
\* level 1 is reachable from the seed through its 6th or a later topic only.
C10_ExpansionWithinFirstFive ==
    []LevelOneWithinFirst /\ [][ExpansionWithinFirst]_vars

\* a seed with more than 5 topics: a repository listed under the 6th, and a
\* repository listed 6th under one of the first 5, stay out of the graph
C10_Witness ==
    /\ outcome.kind = "ego"
    /\ LET topics == repo_map[outcome.seed].topics
       IN /\ Len(topics) > topics_per_node
          /\ \E c \in SetOf(TopicGet(topic_to_repos, topics[topics_per_node + 1])) :
                c \notin DOMAIN outcome.graph.nodes
          /\ \E p \in 1..topics_per_node :
                LET list == TopicGet(topic_to_repos, topics[p])
                IN /\ Len(list) > repos_per_topic
                   /\ list[repos_per_topic + 1] \notin DOMAIN outcome.graph.nodes
    /\ number_of_nodes(outcome.graph) > 1

-----------------------------------------------------------------------------
(* The global graph and the topic index under repeated topics.             *)

\* C11: the graph built by _build_full_graph is simple for every input,
\* whether or not a record's topics array repeats a topic: no edge joins a
\* repository to itself, and no unordered pair is added or counted twice.
C11_GlobalGraphSimple ==
    /\ pc \in FullPcs =>
          /\ \A e \in DOMAIN G.edges : Cardinality(e) = 2
          /\ edge_count = number_of_edges(G)
    /\ outcome.kind = "full" =>
          \A e \in DOMAIN outcome.graph.edges : Cardinality(e) = 2

\* the place of the record named n in the input
PositionOf(n) == Min({k \in 1..Len(repo_data) : repo_data[k].full_name = n})

\* C12: in the topic index every full_name occurs at most once in the list
\* of a topic, even when a record repeats the topic in its topics array, and
\* the entries of a list appear in the order of the input records.
C12_TopicListsWithoutRepeats ==
    \A t \in 1..Len(topic_to_repos) :
       LET list == topic_to_repos[t].repos
       IN /\ \A p, q \in 1..Len(list) : p # q => list[p] # list[q]
          /\ \A p, q \in 1..Len(list) :
                p < q => PositionOf(list[p]) <= PositionOf(list[q])

-----------------------------------------------------------------------------
(* Records with absent or null optional fields.                            *)

Faults == {"KeyError", "TypeError"}

\* the key is absent from the record, or null
Unset(repo, key) == Missing(repo, key) \/ IsNone(repo[key])

DefaultsGiven(g) ==
    \A n \in DOMAIN g.nodes :
       LET attrs == g.nodes[n]
           repo == repo_map[n]
       IN attrs # NoAttrs =>
             /\ Unset(repo, "language") => attrs.lang = "Unknown"
             /\ Unset(repo, "star_count") => ~IsNone(attrs.star) /\ attrs.star = 0
             /\ Unset(repo, "activity_score") =>
                   ~IsNone(attrs.activity) /\ attrs.activity = 0

\* C13: loading the records and building either graph never ends in an
\* exception when an optional field (language, star_count, activity_score,
\* topics) of a record is absent or null, and the node of such a record has
\* the defaults lang = "Unknown", star = 0, activity = 0.
C13_OptionalFieldsDefaulted ==
    /\ outcome.kind \notin Faults
    /\ outcome.kind \in {"full", "ego"} => DefaultsGiven(outcome.graph)

-----------------------------------------------------------------------------
(* calculate_activity_score.                                               *)

\* the count under a key, 0 for a missing key
CountOf(key) == IF key \in DOMAIN activity_data THEN activity_data[key] ELSE 0

Clamp(x, lo, hi) == IF x < lo THEN lo ELSE IF x > hi THEN hi ELSE x

\* the weighted sum of the contract, in hundredths: 0.04 a commit up to 40,
\* 0.2 a merged PR up to 20, 0.4 a resolved issue between 0 and 20, 0.2 a
\* contributor up to 20
WeightedSum ==
    Clamp(4 * CountOf("commits_total"), 0, 4000)
    + Clamp(20 * CountOf("prs_merged"), 0, 2000)
    + Clamp(40 * (CountOf("issues_closed") - CountOf("issues_open")), 0, 2000)
    + Clamp(20 * CountOf("contributors_total"), 0, 2000)

ScoreAsContract ==
    total_score.kind = "score" =>
        /\ total_score.value = WeightedSum
        /\ total_score.value \in 0..10000
        /\ (\A k \in ActivityKeys : CountOf(k) = 0) => total_score.value = 0
        /\ (/\ CountOf("commits_total") = 5000 /\ CountOf("prs_merged") = 500
            /\ CountOf("issues_closed") = 100 /\ CountOf("issues_open") = 0
            /\ CountOf("contributors_total") = 500) => total_score.value = 10000

\* a second call on the same activity_data returns what the first returned
ScoreRepeats ==
    (total_score.kind = "score" /\ total_score'.kind = "score"
     /\ activity_data' = activity_data) => total_score'.value = total_score.value

\* C14: for non-negative integer counts, a missing key counted as 0,
\* calculate_activity_score returns min(commits/1000,1)*40 +
\* min(prs_merged/100,1)*20 + min(max((issues_closed-issues_open)/50,0),1)*20
\* + min(contributors/100,1)*20, a value in [0,100]: 0.0 for all counts 0,
\* 100.0 for (5000, 500, 100, 0, 500), and the same for the same inputs.
C14_ScoreIsWeightedSum ==
    []ScoreAsContract /\ [][ScoreRepeats]_vars

\* a score strictly between the ends, with more open than closed issues and
\* a missing key
C14_Witness ==
    /\ total_score.kind = "score"
    /\ total_score.value \in 1..9999
    /\ CountOf("issues_closed") < CountOf("issues_open")
    /\ "contributors_total" \notin DOMAIN activity_data
    /\ CountOf("commits_total") = 7

-----------------------------------------------------------------------------
(* Labels.                                                                 *)

\* L is the last '/'-delimited segment of text, cut to at most 12 characters
IsLabelOf(L, text) ==
    \E s \in 1..(Len(text) + 1) :
       /\ s = 1 \/ text[s - 1] = "/"
       /\ \A k \in s..Len(text) : text[k] # "/"
       /\ Len(L) = (IF Len(text) - s + 1 > 12 THEN 12 ELSE Len(text) - s + 1)
       /\ \A k \in 1..Len(L) : L[k] = text[s + k - 1]

LabelsAsContract ==
    outcome.kind = "plot" =>
        LET g == outcome.graph
        IN /\ outcome.is_4level => DOMAIN outcome.labels = DOMAIN g.nodes
           /\ ~outcome.is_4level =>
                 DOMAIN outcome.labels = {n \in DOMAIN g.nodes : g.nodes[n].star > 150000}
           /\ \A n \in DOMAIN outcome.labels : IsLabelOf(outcome.labels[n], NameText(n))

RecordsKeptByPlot ==
    outcome'.kind \in {"plot", "plot_error"} =>
        /\ repo_data' = repo_data
        /\ repo_map' = repo_map
        /\ topic_to_repos' = topic_to_repos

\* C15: _plot_graph labels every node of an ego network, and a node of the
\* global graph exactly when its star count is strictly greater than
\* 150000; the label of a node is the last '/'-delimited segment of its
\* full_name cut to at most 12 characters; the records are left unchanged.
C15_LabelsForEligibleNodes ==
    []LabelsAsContract /\ [][RecordsKeptByPlot]_vars

\* a global graph with a node of exactly 150000 stars, without a label, and
\* a labelled node of more stars whose name is cut to 12 characters
C15_Witness ==
    /\ outcome.kind = "plot"
    /\ ~outcome.is_4level
    /\ \E n \in DOMAIN outcome.graph.nodes :
          outcome.graph.nodes[n].star = 150000 /\ n \notin DOMAIN outcome.labels
    /\ \E n \in DOMAIN outcome.labels :
          Len(outcome.labels[n]) = 12 /\ Len(NameText(n)) > 12

-----------------------------------------------------------------------------
(* Rounds of the candidate edges.                                          *)

\* the nodes joined to x by an edge of g
NeighboursOf(g, x) == {p \in DOMAIN g.nodes : p # x /\ {p, x} \in DOMAIN g.edges}

\* C16: while _build_4level_graph runs, the edges drawn to a repository X
\* that is not yet finalized were all added in one round: the repositories
\* at their other ends were all expanded in the same round, whatever the
\* order in which the frontiers are processed.  (An edge to X is added while
\* its other end is expanded, and that end's level is the round.)
C16_CandidateEdgesInOneRound ==
    pc \in EgoPcs =>
        \A x \in (DOMAIN G.nodes) \ visited :
           \A p, q \in NeighboursOf(G, x) : G.nodes[p].level = G.nodes[q].level

-----------------------------------------------------------------------------
(* The loops of _build_full_graph at the cap and the seen set.             *)

\* a step that examines a pair: the body of the inner loop
ExaminesPair == pc = "full_j" /\ j' = j + 1

\* a step that takes the next topic from the index
VisitsTopic == pc = "full_topic" /\ pc' = "full_i"

NothingAfterCap ==
    (pc \in FullPcs /\ CapReached(edge_count)) =>
        /\ pc' \in FullPcs => G' = G /\ edge_count' = edge_count
        /\ ~ExaminesPair
        /\ ~VisitsTopic

\* C17: from the moment edge_count reaches max_edges = 1000,
\* _build_full_graph adds no edge, examines no pair and visits no topic:
\* the loops over the pairs and the loop over the topics all end there.
C17_LoopsEndAtCap == [][NothingAfterCap]_vars

\* the pair at positions a < b of the list was reached before the pair at i, j
PairBefore(list, key, upto_i, upto_j) ==
    \E a, b \in 1..Len(list) :
       /\ a < b
       /\ a < upto_i \/ (a = upto_i /\ b < upto_j)
       /\ edge_key(list[a], list[b]) = key

\* the pair was examined earlier in this construction: under an earlier
\* topic, or earlier under the current one
ExaminedBefore(key) ==
    \/ \E t \in 1..(topic_idx - 1) :
          LET list == Truncated(topic_to_repos[t].repos)
          IN PairBefore(list, key, Len(list) + 1, 0)
    \/ PairBefore(repos, key, i + 1, j + 1)

SeenWhateverTheCount ==
    ExaminesPair =>
        LET key == edge_key(repos[i + 1], repos[j + 1])
        IN /\ key \in added_edges'
           /\ key \notin added_edges => ~ExaminedBefore(key)

\* C18: _build_full_graph records every unordered pair it examines in
\* added_edges, whether or not it adds an edge for it, so that the number
\* of shared topics of a pair is computed at most once in one construction.
C18_ExaminedPairsAreSeen == [][SeenWhateverTheCount]_vars

-----------------------------------------------------------------------------
(* retry_decorator.                                                        *)

RetryAsContract ==
    max_retries >= 1 =>
        /\ invocations <= max_retries
        /\ wrapped.kind # "None"
        /\ wrapped.kind = "return" => retries = invocations - 1
        /\ wrapped.kind = "raise" =>
              /\ invocations = max_retries
              /\ retries = max_retries
              /\ wrapped.exception = caught
        /\ rpc = "done" <=> wrapped.kind \in {"return", "raise"}
        /\ Len(slept) = retries
        /\ \A k \in 1..Len(slept) : slept[k] = base_delay * (2 ^ k)

\* a step invokes func only while the call has not ended; a failure is what
\* makes retries grow, a return ends the call with the value of that invocation
RetrySteps ==
    /\ invocations' # invocations => rpc = "while" /\ invocations' = invocations + 1
    /\ rpc = "done" => UNCHANGED retryVars
    /\ wrapped'.kind = "return" /\ wrapped.kind # "return" =>
          invocations' = invocations + 1 /\ retries' = retries /\ slept' = slept

-----------------------------------------------------------------------------
(* Two runs on the same inputs.                                            *)

SameGraphAgain ==
    (outcome.kind = "ego" /\ outcome'.kind = "ego" /\ outcome'.seed = outcome.seed) =>
        /\ DOMAIN outcome'.graph.nodes = DOMAIN outcome.graph.nodes
        /\ outcome'.graph.nodes = outcome.graph.nodes
        /\ DOMAIN outcome'.graph.edges = DOMAIN outcome.graph.edges

\* C20: for the same seed, records and topic index, two runs of
\* _build_4level_graph return the same nodes, with the same levels, and the
\* same edges, whatever the order in which the repositories of a frontier
\* are processed within a round.
C20_EgoDeterminedByInputs == [][SameGraphAgain]_vars

-----------------------------------------------------------------------------
(* The edges of an ego network.                                            *)

\* no edge of g joins a node to itself, and every edge has weight 1
PlainEdges(g) ==
    \A e \in DOMAIN g.edges : Cardinality(e) = 2 /\ g.edges[e].weight = 1

\* C21: no graph built by _build_4level_graph has a self-loop, while it is
\* built or when it is returned: a repository is in visited before its
\* candidates are scanned, so it draws no edge to itself although it is
\* listed under its own topics; and every edge of the graph has weight 1.
C21_EgoEdgesPlain ==
    /\ pc \in EgoPcs => PlainEdges(G)
    /\ outcome.kind = "ego" => PlainEdges(outcome.graph)

\* a returned ego network with edges, whose seed is among its own
\* candidates and whose index lists a repository twice under a topic
C21_Witness ==
    /\ outcome.kind = "ego"
    /\ number_of_edges(outcome.graph) >= 2
    /\ outcome.seed \in Candidates(repo_map[outcome.seed])
    /\ \E n \in DOMAIN outcome.graph.nodes :
          /\ n \in Candidates(repo_map[n])
          /\ Len(repo_map[n].topics) > Cardinality(SetOf(repo_map[n].topics))

====
